---- MODULE Spec2Model ----
(***************************************************************************)
(* A model of the generic repository/service core of yeyo-back:            *)
(* app/core/database.py (connection scope, transaction scope),             *)
(* app/core/base_repository.py (query builders, BaseRepository) and        *)
(* app/core/base_service.py (BaseService), run by concurrent request       *)
(* tasks against one relational store under read-committed isolation.      *)
(* A task suspends only where the code awaits: at pool acquisition, at     *)
(* BEGIN, at a statement, at COMMIT/ROLLBACK and at release.               *)
(***************************************************************************)
EXTENDS Integers, Sequences, FiniteSets, TLC

-----------------------------------------------------------------------------
(* Bounds of the model *)

\* number of operations (requests) started in one behaviour
MaxOps == 2
\* number of operations started in a behaviour of the one-task specification
MaxSeqOps == 3
\* number of injected store faults and request cancellations in one behaviour
MaxFaults == 1
\* highest id the serial sequences hand out to a row that is inserted; an
\* INSERT the store rejects still runs once the sequence is past it
MaxId == 2
\* connections the pool hands out at the same time
PoolSize == 2

Tasks == {"t1", "t2"}

-----------------------------------------------------------------------------
(* Entity descriptors *)

Tables == {"proveedor", "compra_proveedor"}

IdField(tbl) == IF tbl = "proveedor" THEN "id_proveedor" ELSE "id_compra"

Columns(tbl) ==
    IF tbl = "proveedor" THEN {"nit", "descripcion"}
    ELSE {"factura", "id_proveedor"}

\* the business key the store keeps unique
UniqueField(tbl) == IF tbl = "proveedor" THEN "nit" ELSE "factura"

\* compra_proveedor.id_proveedor references proveedor.id_proveedor; column
\* values are texts, a reference being the text of the id it names
HasFk(tbl) == tbl = "compra_proveedor"
FkField == "id_proveedor"
FkParent == "proveedor"

EntityName(tbl) == IF tbl = "proveedor" THEN "Proveedor" ELSE "CompraProveedor"

NULL == "NULL"

\* columns the store fills when an INSERT does not name them
HasDefault(tbl, c) == tbl = "proveedor" /\ c = "descripcion"
ColumnDefault(tbl, c) == NULL

\* f"{id_value}": an id formatted into a message
IdStr(i) == <<"1", "2", "3", "4", "5", "6">>[i]

-----------------------------------------------------------------------------
(* Failures: kind, constructor arguments, and the failure being handled    *)
(* when this one was raised (Python's implicit exception context).         *)

NoExc == [kind |-> "none", detail |-> <<>>, ctx |-> <<>>]

MkExc(kind, detail, ctx) == [kind |-> kind, detail |-> detail, ctx |-> ctx]

\* failures of the driver and the store
LowExc(kind) == MkExc(kind, <<kind>>, <<>>)

\* asyncpg classes that derive from asyncpg.PostgresError
PostgresKinds == {"UniqueViolationError", "ForeignKeyViolationError", "PostgresError"}
\* every store-related failure: the above and the driver's InterfaceError
StoreKinds == PostgresKinds \cup {"InterfaceError"}
\* classes deriving from Exception; CancelledError derives from BaseException
ExceptionKinds == StoreKinds \cup
    {"ValueError", "NotFoundError", "DuplicateError", "ForeignKeyError", "DatabaseError"}
DomainKinds == {"NotFoundError", "DuplicateError", "ForeignKeyError", "DatabaseError"}

NotFoundError(entity, id) == MkExc("NotFoundError", <<entity, IdStr(id)>>, <<>>)
DuplicateError(entity, field, value, ctx) ==
    MkExc("DuplicateError", <<entity, field, value>>, <<ctx>>)
ForeignKeyError(entity, idv, ctx) == MkExc("ForeignKeyError", <<entity, idv>>, <<ctx>>)
DatabaseError(detail, ctx) == MkExc("DatabaseError", detail, <<ctx>>)

\* str(e): the message the constructor builds
Str(e) ==
    CASE e.kind = "NotFoundError" ->
            <<e.detail[1], "con ID", e.detail[2], "no encontrado">>
      [] e.kind = "DuplicateError" ->
            <<"Ya existe un", e.detail[1], "con", e.detail[2], e.detail[3]>>
      [] e.kind = "ForeignKeyError" ->
            <<"El", e.detail[1], "con ID", e.detail[2], "no existe">>
      [] e.kind = "DatabaseError" -> <<"Error de base de datos">> \o e.detail
      [] OTHER -> e.detail

\* the failure a chain started from
RECURSIVE Root(_)
Root(e) == IF e.ctx = <<>> THEN e ELSE Root(e.ctx[1])

-----------------------------------------------------------------------------
(* Outcomes of a call: a returned value or a raised failure *)

NoneV == [k |-> "none"]
BoolV(b) == [k |-> "bool", b |-> b]
RowV(id, f) == [k |-> "row", id |-> id, f |-> f]
ListV(rows) == [k |-> "list", rows |-> rows]
\* the status string of a command, as its words: "DELETE 1" is <<"DELETE", 1>>
StatusV(words) == [k |-> "status", words |-> words]

NoOut == [t |-> "none", v |-> NoneV, e |-> NoExc]
Val(v) == [t |-> "val", v |-> v, e |-> NoExc]
Exc(e) == [t |-> "exc", v |-> NoneV, e |-> e]

-----------------------------------------------------------------------------
(* Query Builder: a statement and its positional arguments.  A field map   *)
(* is a sequence of <<field, value>> pairs in iteration order.             *)

RECURSIVE LastIndexOf(_, _, _)
LastIndexOf(fields, c, i) ==
    IF i = 0 THEN 0
    ELSE IF fields[i] = c THEN i ELSE LastIndexOf(fields, c, i - 1)

\* build_update_query binding the id first: WHERE id = $1, fields from $2 on
build_update_query_IdFirst(table_name, update_data, id_field, id_value) ==
    IF Len(update_data) = 0
    THEN Exc(LowExc("ValueError"))
    ELSE Val([k |-> "query",
              kind |-> "UPDATE",
              table |-> table_name,
              fields |-> [i \in 1..Len(update_data) |-> update_data[i][1]],
              ph |-> [i \in 1..Len(update_data) |-> i + 1],
              where |-> id_field,
              wherePh |-> 1,
              values |-> <<id_value>>
                            \o [i \in 1..Len(update_data) |-> update_data[i][2]]])

build_update_query(table_name, update_data, id_field, id_value) ==
    IF Len(update_data) = 0
    THEN Exc(LowExc("ValueError"))
    ELSE Val([k |-> "query",
              kind |-> "UPDATE",
              table |-> table_name,
              fields |-> [i \in 1..Len(update_data) |-> update_data[i][1]],
              ph |-> [i \in 1..Len(update_data) |-> i],
              where |-> id_field,
              wherePh |-> Len(update_data) + 1,
              values |-> [i \in 1..Len(update_data) |-> update_data[i][2]]
                            \o <<id_value>>])

\* build_insert_query without its `if not data` test
build_insert_query_NoEmptyTest(table_name, data) ==
    Val([k |-> "query",
         kind |-> "INSERT",
         table |-> table_name,
         fields |-> [i \in 1..Len(data) |-> data[i][1]],
         ph |-> [i \in 1..Len(data) |-> i],
         where |-> "",
         wherePh |-> 0,
         values |-> [i \in 1..Len(data) |-> data[i][2]]])

build_insert_query(table_name, data) ==
    IF Len(data) = 0
    THEN Exc(LowExc("ValueError"))
    ELSE Val([k |-> "query",
              kind |-> "INSERT",
              table |-> table_name,
              fields |-> [i \in 1..Len(data) |-> data[i][1]],
              ph |-> [i \in 1..Len(data) |-> i],
              where |-> "",
              wherePh |-> 0,
              values |-> [i \in 1..Len(data) |-> data[i][2]]])

-----------------------------------------------------------------------------
(* Statements the repository writes inline *)

\* limit: Optional[int] = None
NoneLimit == -1

SelectByIdQuery(table_name, id_field, id_value) ==
    [k |-> "query", kind |-> "SELECT", table |-> table_name, fields |-> <<>>,
     ph |-> <<>>, where |-> id_field, wherePh |-> 1, values |-> <<id_value>>]

DeleteQuery(table_name, id_field, id_value) ==
    [k |-> "query", kind |-> "DELETE", table |-> table_name, fields |-> <<>>,
     ph |-> <<>>, where |-> id_field, wherePh |-> 1, values |-> <<id_value>>]

\* find_all: ORDER BY order_by or the id field; LIMIT only when `limit` is truthy
\* (`where` holds the ORDER BY column, `wherePh` the LIMIT, 0 for no LIMIT clause)
SelectAllQuery(table_name, id_field, order_by, limit) ==
    [k |-> "query", kind |-> "SELECT_ALL", table |-> table_name, fields |-> <<>>,
     ph |-> <<>>,
     where |-> IF order_by # "" THEN order_by ELSE id_field,
     wherePh |-> IF limit # NoneLimit /\ limit # 0 THEN limit ELSE 0,
     values |-> <<>>]

-----------------------------------------------------------------------------
(* The store: what one statement does to the committed state `st`          *)
(* (st[tbl] maps the ids of the rows present to their columns).            *)
(* A statement yields an outcome and the writes its transaction holds      *)
(* until it commits.                                                       *)

Put(f, i, r) == [j \in (DOMAIN f) \cup {i} |-> IF j = i THEN r ELSE f[j]]
Remove(f, i) == [j \in (DOMAIN f) \ {i} |-> f[j]]

Write(tbl, id, del, row) == [tbl |-> tbl, id |-> id, del |-> del, row |-> row]

StmtResult(out, writes) == [out |-> out, writes |-> writes]

\* a statement that rewrites the whole row: the columns it does not name get
\* their defaults
BoundRow_WholeRow(q, old) ==
    [c \in Columns(q.table) |->
        LET i == LastIndexOf(q.fields, c, Len(q.fields))
        IN IF i > 0 THEN q.values[q.ph[i]] ELSE ColumnDefault(q.table, c)]

\* the value a statement binds to column c, or the column's default
BoundRow(q, old) ==
    [c \in Columns(q.table) |->
        LET i == LastIndexOf(q.fields, c, Len(q.fields))
        IN IF i > 0 THEN q.values[q.ph[i]] ELSE old[c]]

DefaultRow(tbl) == [c \in Columns(tbl) |-> ColumnDefault(tbl, c)]

UniqueTaken(st, tbl, row, self) ==
    \E j \in DOMAIN st[tbl] :
        /\ j # self
        /\ row[UniqueField(tbl)] # NULL
        /\ st[tbl][j][UniqueField(tbl)] = row[UniqueField(tbl)]

FkMissing(st, tbl, row) ==
    HasFk(tbl) /\ row[FkField] # NULL
               /\ row[FkField] \notin {IdStr(j) : j \in DOMAIN st[FkParent]}

Referenced(st, tbl, id) ==
    tbl = FkParent /\
    \E j \in DOMAIN st["compra_proveedor"] : st["compra_proveedor"][j][FkField] = IdStr(id)

ExecInsert(st, nid, q) ==
    LET tbl == q.table
        row == BoundRow(q, DefaultRow(tbl))
        named == {q.fields[i] : i \in 1..Len(q.fields)}
    IN IF \E c \in Columns(tbl) : c \notin named /\ ~HasDefault(tbl, c)
       THEN StmtResult(Exc(LowExc("PostgresError")), <<>>)
       ELSE IF UniqueTaken(st, tbl, row, 0)
       THEN StmtResult(Exc(LowExc("UniqueViolationError")), <<>>)
       ELSE IF FkMissing(st, tbl, row)
       THEN StmtResult(Exc(LowExc("ForeignKeyViolationError")), <<>>)
       ELSE StmtResult(Val(RowV(nid, row)), <<Write(tbl, nid, FALSE, row)>>)

ExecUpdate(st, q) ==
    LET tbl == q.table
        id == q.values[q.wherePh]
    IN IF id \notin DOMAIN st[tbl]
       THEN StmtResult(Val(NoneV), <<>>)
       ELSE LET row == BoundRow(q, st[tbl][id])
            IN IF UniqueTaken(st, tbl, row, id)
               THEN StmtResult(Exc(LowExc("UniqueViolationError")), <<>>)
               ELSE IF FkMissing(st, tbl, row)
               THEN StmtResult(Exc(LowExc("ForeignKeyViolationError")), <<>>)
               ELSE StmtResult(Val(RowV(id, row)), <<Write(tbl, id, FALSE, row)>>)

ExecDelete(st, q) ==
    LET tbl == q.table
        id == q.values[q.wherePh]
    IN IF id \notin DOMAIN st[tbl]
       THEN StmtResult(Val(StatusV(<<"DELETE", 0>>)), <<>>)
       ELSE IF Referenced(st, tbl, id)
       THEN StmtResult(Exc(LowExc("ForeignKeyViolationError")), <<>>)
       ELSE StmtResult(Val(StatusV(<<"DELETE", 1>>)), <<Write(tbl, id, TRUE, <<>>)>>)

ExecSelect(st, q) ==
    LET tbl == q.table
        id == q.values[q.wherePh]
    IN IF id \in DOMAIN st[tbl]
       THEN StmtResult(Val(RowV(id, st[tbl][id])), <<>>)
       ELSE StmtResult(Val(NoneV), <<>>)

\* the rows of tbl with id >= from, by ascending id
RECURSIVE RowsFrom(_, _, _)
RowsFrom(st, tbl, from) ==
    IF from > MaxId THEN <<>>
    ELSE (IF from \in DOMAIN st[tbl] THEN <<RowV(from, st[tbl][from])>> ELSE <<>>)
         \o RowsFrom(st, tbl, from + 1)

\* the texts a column holds, in the store's ascending order (NULLs last)
ValueOrder == <<"d1", "d2", "f1", "f2", "n1", "n2", NULL>>

ValueRank(v) == CHOOSE i \in 1..Len(ValueOrder) : ValueOrder[i] = v

\* the rows of tbl with the ids in `ids`, by ascending value of column col
RECURSIVE RowsBy(_, _, _, _)
RowsBy(st, tbl, col, ids) ==
    IF ids = {} THEN <<>>
    ELSE LET first == CHOOSE i \in ids : \A j \in ids :
                         \/ ValueRank(st[tbl][i][col]) < ValueRank(st[tbl][j][col])
                         \/ /\ ValueRank(st[tbl][i][col]) = ValueRank(st[tbl][j][col])
                            /\ i <= j
         IN <<RowV(first, st[tbl][first])>> \o RowsBy(st, tbl, col, ids \ {first})

ExecSelectAll(st, q) ==
    LET rows == IF q.where = IdField(q.table) THEN RowsFrom(st, q.table, 1)
                ELSE RowsBy(st, q.table, q.where, DOMAIN st[q.table])
    IN StmtResult(
         Val(ListV(IF q.wherePh # 0 /\ q.wherePh < Len(rows)
                   THEN SubSeq(rows, 1, q.wherePh) ELSE rows)),
         <<>>)

ExecQuery(st, nid, q) ==
    CASE q.kind = "INSERT" -> ExecInsert(st, nid, q)
      [] q.kind = "UPDATE" -> ExecUpdate(st, q)
      [] q.kind = "DELETE" -> ExecDelete(st, q)
      [] q.kind = "SELECT" -> ExecSelect(st, q)
      [] OTHER -> ExecSelectAll(st, q)

\* the committed state once a transaction's writes are applied together
RECURSIVE ApplyWrites(_, _)
ApplyWrites(st, ws) ==
    IF ws = <<>> THEN st
    ELSE LET w == Head(ws)
         IN ApplyWrites(
              [st EXCEPT ![w.tbl] = IF w.del THEN Remove(@, w.id) ELSE Put(@, w.id, w.row)],
              Tail(ws))

-----------------------------------------------------------------------------
(* Payloads.  A payload holds the fields its caller set explicitly, as a   *)
(* function from those fields to their values; the schema declares the     *)
(* fields in a fixed order and gives every Update field the default None.  *)

FieldOrder(tbl) ==
    IF tbl = "proveedor" THEN <<"nit", "descripcion">>
    ELSE <<"id_proveedor", "factura">>

RECURSIVE DumpFrom(_, _, _, _)
DumpFrom(order, i, payload, excludeUnset) ==
    IF i > Len(order) THEN <<>>
    ELSE (IF order[i] \in DOMAIN payload THEN <<<<order[i], payload[order[i]]>>>>
          ELSE IF excludeUnset THEN <<>>
          ELSE <<<<order[i], NULL>>>>)
         \o DumpFrom(order, i + 1, payload, excludeUnset)

\* payload.model_dump(): the unset fields too, with their default None
model_dump_WithUnset(tbl, payload) == DumpFrom(FieldOrder(tbl), 1, payload, FALSE)

\* payload.model_dump(exclude_unset=True)
model_dump(tbl, payload) == DumpFrom(FieldOrder(tbl), 1, payload, TRUE)

One(c, v) == [x \in {c} |-> v]
Two(c, v, d, w) == [x \in {c, d} |-> IF x = c THEN v ELSE w]
Empty == [x \in {} |-> NULL]

\* the ids requests name
OpIds == {1, 2}

CreatePayloads(tbl) ==
    IF tbl = "proveedor"
    THEN {One("nit", "n1"), One("nit", "n2"), Two("nit", "n2", "descripcion", "d2")}
    ELSE {Two("factura", "f1", "id_proveedor", IdStr(1)),
          Two("factura", "f2", "id_proveedor", IdStr(1)),
          Two("factura", "f2", "id_proveedor", IdStr(2))}

UpdatePayloads(tbl) ==
    IF tbl = "proveedor"
    THEN {Empty, One("nit", "n2"), One("descripcion", NULL)}
    ELSE {Empty, One("factura", "f2"), One("id_proveedor", IdStr(2))}

Op(name, tbl, id, data) == [name |-> name, tbl |-> tbl, id |-> id, data |-> data]

\* the requests a task may make
OpChoices ==
    {Op(n, tbl, id, Empty) :
        n \in {"get_by_id", "delete", "repo_delete"}, tbl \in Tables, id \in OpIds}
    \cup {Op("get_all", tbl, 0, Empty) : tbl \in Tables}
    \cup UNION {{Op("create", tbl, 0, d) : d \in CreatePayloads(tbl)} : tbl \in Tables}
    \cup UNION {{Op(n, tbl, id, d) :
                    n \in {"update", "repo_update"}, id \in OpIds,
                    d \in UpdatePayloads(tbl)} : tbl \in Tables}

\* the requests that run beside them: the writes that can race with a request
RaceChoices ==
    {Op("create", "proveedor", 0, One("nit", "n2")),
     Op("create", "compra_proveedor", 0, Two("factura", "f2", "id_proveedor", IdStr(1))),
     Op("update", "proveedor", 1, One("nit", "n2")),
     Op("update", "compra_proveedor", 1, One("factura", "f2")),
     Op("delete", "proveedor", 1, Empty),
     Op("delete", "compra_proveedor", 1, Empty)}

Menu(t) == IF t = "t1" THEN OpChoices ELSE RaceChoices

\* Repository.find_all(order_by, limit): order_by None (written "") or the
\* table's unique column; limit None, 0 or 1
FindAllChoices ==
    UNION {{Op("repo_find_all", tbl, 0, Two("order_by", ob, "limit", lim)) :
                ob \in {"", UniqueField(tbl)}, lim \in {NoneLimit, 0, 1}} :
           tbl \in Tables}

-----------------------------------------------------------------------------
(* BaseRepository: what each method makes of the statement's outcome r,    *)
(* between the statement and the exit of its scopes.                       *)

IsException(e) == e.kind \in ExceptionKinds

\* find_by_id / find_all: row or None; except Exception -> DatabaseError(str(e))
RepoFindResult(r) ==
    IF r.t = "exc" /\ IsException(r.e) THEN Exc(DatabaseError(Str(r.e), r.e)) ELSE r

\* create without the check of the returned row
RepoCreateResult_PassNone(r) == r

\* create: no row -> DatabaseError; except Exception: raise
RepoCreateResult(r) ==
    IF r.t = "val" /\ r.v.k = "none"
    THEN Exc(DatabaseError(<<"No se pudo crear el registro">>, NoExc))
    ELSE r

\* update without the check of the returned row
RepoUpdateResult_PassNone(tbl, id, r) == r

\* update: no row -> NotFoundError(table_name, id); except Exception: raise
RepoUpdateResult(tbl, id, r) ==
    IF r.t = "val" /\ r.v.k = "none" THEN Exc(NotFoundError(tbl, id)) ELSE r

\* update with an empty field map, without the check of `existing`
RepoUpdateEmptyResult_PassNone(tbl, id, r) == r

\* update with an empty field map: existing = find_by_id(id)
RepoUpdateEmptyResult(tbl, id, r) ==
    IF r.t = "val" /\ r.v.k = "none" THEN Exc(NotFoundError(tbl, id)) ELSE r

\* delete without the check of the affected-row count
RepoDeleteResult_NoCount(tbl, id, r) == IF r.t = "val" THEN Val(BoolV(TRUE)) ELSE r

\* delete: int(result.split()[-1]) == 0 -> NotFoundError, else True
RepoDeleteResult(tbl, id, r) ==
    IF r.t = "val"
    THEN LET deleted_count == r.v.words[Len(r.v.words)]
         IN IF deleted_count = 0 THEN Exc(NotFoundError(tbl, id)) ELSE Val(BoolV(TRUE))
    ELSE r

-----------------------------------------------------------------------------
(* BaseService: what each method makes of the repository's outcome r.      *)

\* get_by_id without the promotion of None to NotFoundError
SvcGetById_PassNone(tbl, id, r) ==
    IF r.t = "val" THEN r
    ELSE IF r.e.kind = "NotFoundError" THEN r
    ELSE IF IsException(r.e) THEN Exc(DatabaseError(Str(r.e), r.e))
    ELSE r

\* get_by_id: None -> NotFoundError(entity_name, id); NotFoundError re-raised;
\* except Exception -> DatabaseError(str(e))
SvcGetById(tbl, id, r) ==
    IF r.t = "val"
    THEN (IF r.v.k = "none" THEN Exc(NotFoundError(EntityName(tbl), id)) ELSE r)
    ELSE IF r.e.kind = "NotFoundError" THEN r
    ELSE IF IsException(r.e) THEN Exc(DatabaseError(Str(r.e), r.e))
    ELSE r

\* get_all: except Exception -> DatabaseError(str(e))
SvcGetAll(r) ==
    IF r.t = "exc" /\ IsException(r.e) THEN Exc(DatabaseError(Str(r.e), r.e)) ELSE r

\* create's except clauses without the one for ForeignKeyViolationError
SvcCreateHandle_NoFkClause(tbl, e) ==
    CASE e.kind = "UniqueViolationError" ->
            Exc(DuplicateError(EntityName(tbl), "campo unico", "valor duplicado", e))
      [] e.kind \in PostgresKinds -> Exc(DatabaseError(Str(e), e))
      [] IsException(e) -> Exc(DatabaseError(Str(e), e))
      [] OTHER -> Exc(e)

\* create's except clauses with PostgresError tried before its subclasses
SvcCreateHandle_BaseClassFirst(tbl, e) ==
    CASE e.kind \in PostgresKinds -> Exc(DatabaseError(Str(e), e))
      [] IsException(e) -> Exc(DatabaseError(Str(e), e))
      [] OTHER -> Exc(e)

\* the except clauses of create, in order
SvcCreateHandle(tbl, e) ==
    CASE e.kind = "UniqueViolationError" ->
            Exc(DuplicateError(EntityName(tbl), "campo unico", "valor duplicado", e))
      [] e.kind = "ForeignKeyViolationError" ->
            Exc(ForeignKeyError("registro relacionado", "id", e))
      [] e.kind = "PostgresError" -> Exc(DatabaseError(Str(e), e))
      [] IsException(e) /\ e.kind \notin PostgresKinds -> Exc(DatabaseError(Str(e), e))
      [] OTHER -> Exc(e)

\* update's except clauses with PostgresError tried before its subclasses
SvcUpdateHandle_BaseClassFirst(tbl, e) ==
    CASE e.kind = "NotFoundError" -> Exc(e)
      [] e.kind \in PostgresKinds -> Exc(DatabaseError(Str(e), e))
      [] IsException(e) -> Exc(DatabaseError(Str(e), e))
      [] OTHER -> Exc(e)

\* the except clauses of update, in order
SvcUpdateHandle(tbl, e) ==
    CASE e.kind = "NotFoundError" -> Exc(e)
      [] e.kind = "UniqueViolationError" ->
            Exc(DuplicateError(EntityName(tbl), "campo unico", "valor duplicado", e))
      [] e.kind = "ForeignKeyViolationError" ->
            Exc(ForeignKeyError("registro relacionado", "id", e))
      [] e.kind = "PostgresError" -> Exc(DatabaseError(Str(e), e))
      [] IsException(e) /\ e.kind \notin (PostgresKinds \cup {"NotFoundError"}) ->
            Exc(DatabaseError(Str(e), e))
      [] OTHER -> Exc(e)

\* delete's except clauses without the one for ForeignKeyViolationError
SvcDeleteHandle_NoFkClause(tbl, e) ==
    CASE e.kind = "NotFoundError" -> Exc(e)
      [] e.kind \in PostgresKinds -> Exc(DatabaseError(Str(e), e))
      [] IsException(e) -> Exc(DatabaseError(Str(e), e))
      [] OTHER -> Exc(e)

\* the except clauses of delete, in order
SvcDeleteHandle(tbl, e) ==
    CASE e.kind = "NotFoundError" -> Exc(e)
      [] e.kind = "ForeignKeyViolationError" ->
            Exc(DatabaseError(
                <<"No se puede eliminar el", EntityName(tbl),
                  "porque tiene registros relacionados">>, e))
      [] e.kind \in {"PostgresError", "UniqueViolationError"} ->
            Exc(DatabaseError(Str(e), e))
      [] IsException(e) /\ e.kind \notin (PostgresKinds \cup {"NotFoundError"}) ->
            Exc(DatabaseError(Str(e), e))
      [] OTHER -> Exc(e)

\* the repository call a method has in flight in its phase-th call
RepoCall(op, phase) ==
    CASE op.name = "get_by_id" -> "find_by_id"
      [] op.name = "get_all" -> "find_all"
      [] op.name = "create" -> "create"
      [] op.name = "update" ->
            IF phase = 1 THEN "find_by_id"
            ELSE IF Len(model_dump(op.tbl, op.data)) = 0 THEN "find_by_id" ELSE "update"
      [] op.name = "delete" -> IF phase = 1 THEN "find_by_id" ELSE "delete"
      [] op.name = "repo_update" -> "update"
      [] op.name = "repo_find_all" -> "find_all"
      [] OTHER -> "delete"

Next2(done, result) == [done |-> done, result |-> result]

\* what the method does when its phase-th repository call comes back with r:
\* finish with a result, or go on to its next call
ServiceNext(op, phase, r) ==
    CASE op.name = "get_by_id" -> Next2(TRUE, SvcGetById(op.tbl, op.id, r))
      [] op.name = "get_all" -> Next2(TRUE, SvcGetAll(r))
      [] op.name = "create" ->
            IF r.t = "exc" THEN Next2(TRUE, SvcCreateHandle(op.tbl, r.e))
            ELSE Next2(TRUE, r)
      [] op.name = "update" ->
            LET g == SvcGetById(op.tbl, op.id, r)
            IN IF RepoCall(op, phase) = "find_by_id"
               THEN (IF g.t = "exc" THEN Next2(TRUE, SvcUpdateHandle(op.tbl, g.e))
                     ELSE Next2(phase = 2, g))
               ELSE (IF r.t = "exc" THEN Next2(TRUE, SvcUpdateHandle(op.tbl, r.e))
                     ELSE Next2(TRUE, r))
      [] op.name = "delete" ->
            IF phase = 1
            THEN LET g == SvcGetById(op.tbl, op.id, r)
                 IN IF g.t = "exc" THEN Next2(TRUE, SvcDeleteHandle(op.tbl, g.e))
                    ELSE Next2(FALSE, g)
            ELSE (IF r.t = "exc" THEN Next2(TRUE, SvcDeleteHandle(op.tbl, r.e))
                  ELSE Next2(TRUE, r))
      [] OTHER -> Next2(TRUE, r)

-----------------------------------------------------------------------------
(* State *)

VARIABLES
    store,      \* committed rows: store[tbl] maps the ids present to their columns
    nextId,     \* nextId[tbl]: the next value of the table's id sequence
    poolOut,    \* connections checked out of the pool
    tx,         \* tx[t]: the writes task t's open transaction holds, in order
    task,       \* task[t]: the request task t is running and where it is suspended
    nOps,       \* requests started
    nFaults,    \* faults and cancellations injected
    hist,       \* hist[t]: what happened to the store during t's current request
    deleted,    \* <<tbl, id>> for which Service.delete has returned success
    connection_pool,  \* DatabaseConnection._connection_pool: NonePool or a pool
    pools       \* pools[p]: "open" or "closed", for every pool create_pool made

vars == <<store, nextId, poolOut, tx, task, nOps, nFaults, hist, deleted,
          connection_pool, pools>>

\* _connection_pool: Optional[asyncpg.Pool] = None
NonePool == 0

\* the handle names a pool that has not been closed
Established == connection_pool # NonePool /\ pools[connection_pool] = "open"

NoOp == Op("none", "proveedor", 0, Empty)

IdleTask ==
    [pc |-> "idle", op |-> NoOp, phase |-> 0, held |-> 0, inTx |-> FALSE,
     out |-> NoOut, low |-> NoOut, result |-> NoOut, stmts |-> {},
     pool |-> NonePool]

NoHist == [changed |-> FALSE, interf |-> FALSE, afterDel |-> FALSE]

\* the store the process finds when it starts serving: one supplier with one
\* purchase; lifespan has awaited db.connect()
Init ==
    /\ store = [tbl \in Tables |->
                  IF tbl = "proveedor"
                  THEN One(1, Two("nit", "n1", "descripcion", "d1"))
                  ELSE One(1, Two("factura", "f1", "id_proveedor", IdStr(1)))]
    /\ nextId = [tbl \in Tables |-> 2]
    /\ poolOut = 0
    /\ tx = [t \in Tasks |-> <<>>]
    /\ task = [t \in Tasks |-> IdleTask]
    /\ nOps = 0
    /\ nFaults = 0
    /\ hist = [t \in Tasks |-> NoHist]
    /\ deleted = {}
    /\ connection_pool = 1
    /\ pools = <<"open">>

Running(t) == task[t].pc \notin {"idle", "done"}

\* a result is handed to its caller before any task takes its next step
NoneDone == \A u \in Tasks : task[u].pc # "done"

IsMutation(fn) == fn \in {"create", "update", "delete"}

\* the field map a call hands to the repository
FieldMap(op) == model_dump(op.tbl, op.data)

\* the statement the repository method fn issues for op
QueryOf(op, fn) ==
    CASE fn = "find_by_id" -> SelectByIdQuery(op.tbl, IdField(op.tbl), op.id)
      [] fn = "find_all" ->
            IF op.name = "repo_find_all"
            THEN SelectAllQuery(op.tbl, IdField(op.tbl),
                                op.data["order_by"], op.data["limit"])
            ELSE SelectAllQuery(op.tbl, IdField(op.tbl), "", NoneLimit)
      [] fn = "create" -> build_insert_query(op.tbl, FieldMap(op)).v
      [] fn = "update" ->
            build_update_query(op.tbl, FieldMap(op), IdField(op.tbl), op.id).v
      [] OTHER -> DeleteQuery(op.tbl, IdField(op.tbl), op.id)

\* what the repository method fn makes of its statement's outcome
RepoResult(op, fn, r) ==
    CASE fn \in {"find_by_id", "find_all"} -> RepoFindResult(r)
      [] fn = "create" -> RepoCreateResult(r)
      [] fn = "update" -> RepoUpdateResult(op.tbl, op.id, r)
      [] OTHER -> RepoDeleteResult(op.tbl, op.id, r)

-----------------------------------------------------------------------------
(* Row locks under read committed: a statement waits while another open    *)
(* transaction holds an uncommitted write it conflicts with.               *)

OthersWrites(t) ==
    UNION {{tx[u][i] : i \in 1..Len(tx[u])} : u \in Tasks \ {t}}

RowLocked(W, tbl, id) == \E w \in W : w.tbl = tbl /\ w.id = id

UniqueWait(W, st, tbl, row, self) ==
    \/ \E w \in W : /\ w.tbl = tbl /\ ~w.del /\ w.id # self
                    /\ w.row[UniqueField(tbl)] = row[UniqueField(tbl)]
    \/ \E j \in DOMAIN st[tbl] :
          /\ j # self
          /\ st[tbl][j][UniqueField(tbl)] = row[UniqueField(tbl)]
          /\ RowLocked(W, tbl, j)

FkWait(W, tbl, row) ==
    HasFk(tbl) /\ \E w \in W : w.tbl = FkParent /\ w.del /\ IdStr(w.id) = row[FkField]

ChildWait(W, tbl, id) ==
    tbl = FkParent /\
    \E w \in W : w.tbl # FkParent /\ ~w.del /\ w.row[FkField] = IdStr(id)

Blocked(t, q) ==
    LET W == OthersWrites(t)
        tbl == q.table
    IN CASE q.kind = "INSERT" ->
              LET row == BoundRow(q, DefaultRow(tbl))
              IN UniqueWait(W, store, tbl, row, 0) \/ FkWait(W, tbl, row)
         [] q.kind = "UPDATE" ->
              LET id == q.values[q.wherePh]
              IN \/ RowLocked(W, tbl, id)
                 \/ /\ id \in DOMAIN store[tbl]
                    /\ LET row == BoundRow(q, store[tbl][id])
                       IN UniqueWait(W, store, tbl, row, id) \/ FkWait(W, tbl, row)
         [] q.kind = "DELETE" ->
              LET id == q.values[q.wherePh]
              IN RowLocked(W, tbl, id) \/ ChildWait(W, tbl, id)
         [] OTHER -> FALSE

-----------------------------------------------------------------------------
(* Scopes *)

\* a transaction scope that commits on every exit path
TxCommit_OnFailureToo(st, ws, out) == ApplyWrites(st, ws)

\* a transaction scope that never commits
TxCommit_Never(st, ws, out) == st

\* conn.transaction().__aexit__: COMMIT when the body returned, ROLLBACK when
\* it raised; ws are the writes the transaction holds
TxCommit(st, ws, out) == IF out.t = "val" THEN ApplyWrites(st, ws) ELSE st

\* a connection scope that releases only when its body returned
ReleaseCount_NormalExitOnly(out) == IF out.t = "exc" THEN 0 ELSE 1

\* pool.acquire().__aexit__: the connection goes back on every exit path
ReleaseCount(out) == 1

\* the repository call came back with r: the service method finishes or
\* goes on to its next repository call
Return(k, r) ==
    LET n == ServiceNext(k.op, k.phase, r)
    IN IF n.done
       THEN [k EXCEPT !.pc = "done", !.out = NoOut, !.low = r, !.result = n.result]
       ELSE [k EXCEPT !.pc = "acq", !.phase = @ + 1, !.out = NoOut, !.low = r]

\* failure e is raised into task record k at its current suspension point and
\* unwinds to the innermost scope that still has to exit
Raise(k, e) ==
    LET fn == RepoCall(k.op, k.phase)
    IN CASE k.pc = "acq" -> Return(k, Exc(e))
         [] k.pc = "begin" -> [k EXCEPT !.pc = "rel", !.out = Exc(e)]
         [] k.pc = "stmt" ->
              [k EXCEPT !.pc = IF IsMutation(fn) THEN "txexit" ELSE "rel",
                        !.out = RepoResult(k.op, fn, Exc(e))]
         [] k.pc = "acq2" -> [k EXCEPT !.pc = "txexit", !.out = Exc(e)]
         [] OTHER -> [k EXCEPT !.pc = "rel2", !.out = RepoFindResult(Exc(e))]

\* bookkeeping of what a step did, the same for every action
Observe(t) ==
    /\ hist' = [u \in Tasks |->
                  IF u = t
                  THEN (IF task[t].pc = "done" THEN NoHist
                        ELSE IF task[t].pc = "idle"
                        THEN [NoHist EXCEPT !.afterDel =
                                 <<task'[t].op.tbl, task'[t].op.id>> \in deleted]
                        ELSE [hist[t] EXCEPT !.changed = @ \/ store' # store])
                  ELSE IF task[u].pc # "idle"
                  THEN [hist[u] EXCEPT !.interf = @ \/ store' # store]
                  ELSE hist[u]]
    /\ deleted' = IF /\ task'[t].pc = "done" /\ task[t].pc # "done"
                     /\ task[t].op.name = "delete" /\ task'[t].result.t = "val"
                  THEN deleted \cup {<<task[t].op.tbl, task[t].op.id>>}
                  ELSE deleted

-----------------------------------------------------------------------------
(* Actions: one per suspension point of a request *)

\* a request out of `menu` arrives and runs up to its first pool acquisition
StartFrom(t, limit, menu) ==
    /\ task[t].pc = "idle"
    /\ nOps < limit
    /\ \E o \in menu :
          task' = [task EXCEPT ![t] =
                      [IdleTask EXCEPT !.pc = "acq", !.op = o, !.phase = 1]]
    /\ nOps' = nOps + 1
    /\ UNCHANGED <<store, nextId, poolOut, tx, nFaults, connection_pool, pools>>
    /\ NoneDone
    /\ Observe(t)

StartOf(t, limit) == StartFrom(t, limit, Menu(t))

Start(t) == StartOf(t, MaxOps)

\* get_connection: pool.acquire() returns once a connection is free
Acquire(t) ==
    /\ task[t].pc = "acq"
    /\ Established
    /\ poolOut < PoolSize
    /\ poolOut' = poolOut + 1
    /\ task' = [task EXCEPT ![t] =
                  [@ EXCEPT !.held = @ + 1,
                            !.pc = IF IsMutation(RepoCall(task[t].op, task[t].phase))
                                   THEN "begin" ELSE "stmt"]]
    /\ UNCHANGED <<store, nextId, tx, nOps, nFaults, connection_pool, pools>>
    /\ NoneDone
    /\ Observe(t)

\* conn.transaction().__aenter__: BEGIN, then the body up to its first await
Begin(t) ==
    LET k == task[t]
        fn == RepoCall(k.op, k.phase)
        built == IF fn = "create" THEN build_insert_query(k.op.tbl, FieldMap(k.op))
                 ELSE IF fn = "update"
                 THEN build_update_query(k.op.tbl, FieldMap(k.op), IdField(k.op.tbl), k.op.id)
                 ELSE Val(NoneV)
    IN /\ k.pc = "begin"
       /\ task' = [task EXCEPT ![t] =
                     IF fn = "update" /\ Len(FieldMap(k.op)) = 0
                     THEN [k EXCEPT !.inTx = TRUE, !.pc = "acq2"]
                     ELSE IF built.t = "exc"
                     THEN [k EXCEPT !.inTx = TRUE, !.pc = "txexit", !.out = built]
                     ELSE [k EXCEPT !.inTx = TRUE, !.pc = "stmt"]]
       /\ UNCHANGED <<store, nextId, poolOut, tx, nOps, nFaults, connection_pool, pools>>
       /\ NoneDone
       /\ Observe(t)

\* conn.fetchrow / conn.fetch / conn.execute of the call's statement
Stmt(t) ==
    LET k == task[t]
        fn == RepoCall(k.op, k.phase)
        q == QueryOf(k.op, fn)
        r == ExecQuery(store, nextId[k.op.tbl], q)
    IN /\ k.pc = "stmt"
       /\ ~Blocked(t, q)
       /\ (q.kind = "INSERT" /\ r.writes # <<>>) => nextId[k.op.tbl] <= MaxId
       /\ nextId' = IF q.kind = "INSERT" /\ nextId[k.op.tbl] <= MaxId
                    THEN [nextId EXCEPT ![k.op.tbl] = @ + 1] ELSE nextId
       /\ tx' = [tx EXCEPT ![t] = @ \o r.writes]
       /\ task' = [task EXCEPT ![t] =
                     [k EXCEPT !.pc = IF IsMutation(fn) THEN "txexit" ELSE "rel",
                               !.out = RepoResult(k.op, fn, r.out),
                               !.stmts = @ \cup {q.kind}]]
       /\ UNCHANGED <<store, poolOut, nOps, nFaults, connection_pool, pools>>
       /\ NoneDone
       /\ Observe(t)

\* update with an empty field map calls find_by_id, which takes a connection
\* of its own while the outer one is held
Acquire2(t) ==
    /\ task[t].pc = "acq2"
    /\ poolOut < PoolSize
    /\ poolOut' = poolOut + 1
    /\ task' = [task EXCEPT ![t] = [@ EXCEPT !.held = @ + 1, !.pc = "stmt2"]]
    /\ UNCHANGED <<store, nextId, tx, nOps, nFaults, connection_pool, pools>>
    /\ NoneDone
    /\ Observe(t)

Stmt2(t) ==
    LET k == task[t]
        q == SelectByIdQuery(k.op.tbl, IdField(k.op.tbl), k.op.id)
        r == ExecQuery(store, nextId[k.op.tbl], q)
    IN /\ k.pc = "stmt2"
       /\ task' = [task EXCEPT ![t] =
                     [k EXCEPT !.pc = "rel2",
                               !.out = RepoFindResult(r.out),
                               !.stmts = @ \cup {q.kind}]]
       /\ UNCHANGED <<store, nextId, poolOut, tx, nOps, nFaults, connection_pool, pools>>
       /\ NoneDone
       /\ Observe(t)

\* the inner connection scope exits and update goes on with `existing`
Release2(t) ==
    LET k == task[t]
    IN /\ k.pc = "rel2"
       /\ poolOut' = poolOut - ReleaseCount(k.out)
       /\ task' = [task EXCEPT ![t] =
                     [k EXCEPT !.pc = "txexit",
                               !.held = @ - ReleaseCount(k.out),
                               !.out = RepoUpdateEmptyResult(k.op.tbl, k.op.id, k.out)]]
       /\ UNCHANGED <<store, nextId, tx, nOps, nFaults, connection_pool, pools>>
       /\ NoneDone
       /\ Observe(t)

\* the transaction scope exits
TxExit(t) ==
    LET k == task[t]
    IN /\ k.pc = "txexit"
       /\ store' = TxCommit(store, tx[t], k.out)
       /\ tx' = [tx EXCEPT ![t] = <<>>]
       /\ task' = [task EXCEPT ![t] = [k EXCEPT !.pc = "rel", !.inTx = FALSE]]
       /\ UNCHANGED <<nextId, poolOut, nOps, nFaults, connection_pool, pools>>
       /\ NoneDone
       /\ Observe(t)

\* the connection scope exits and the repository call returns to the service
Release(t) ==
    LET k == task[t]
    IN /\ k.pc = "rel"
       /\ poolOut' = poolOut - ReleaseCount(k.out)
       /\ task' = [task EXCEPT ![t] =
                     Return([k EXCEPT !.held = @ - ReleaseCount(k.out)], k.out)]
       /\ UNCHANGED <<store, nextId, tx, nOps, nFaults, connection_pool, pools>>
       /\ NoneDone
       /\ Observe(t)

\* the pool fails to hand out a connection
AcquireFault(t) ==
    /\ task[t].pc \in {"acq", "acq2"}
    /\ nFaults < MaxFaults
    /\ nFaults' = nFaults + 1
    /\ task' = [task EXCEPT ![t] = Raise(@, LowExc("InterfaceError"))]
    /\ UNCHANGED <<store, nextId, poolOut, tx, nOps, connection_pool, pools>>
    /\ NoneDone
    /\ Observe(t)

\* the statement fails for a reason other than a constraint
StmtFault(t) ==
    /\ task[t].pc \in {"stmt", "stmt2"}
    /\ nFaults < MaxFaults
    /\ nFaults' = nFaults + 1
    /\ \E kind \in {"PostgresError", "InterfaceError"} :
          task' = [task EXCEPT ![t] = Raise(@, LowExc(kind))]
    /\ UNCHANGED <<store, nextId, poolOut, tx, nOps, connection_pool, pools>>
    /\ NoneDone
    /\ Observe(t)

\* the store runs a writing statement inside the transaction, but the task
\* is cancelled or loses the connection before the result reaches it
StmtLost(t) ==
    LET k == task[t]
        fn == RepoCall(k.op, k.phase)
        q == QueryOf(k.op, fn)
        r == ExecQuery(store, nextId[k.op.tbl], q)
    IN /\ k.pc = "stmt"
       /\ IsMutation(fn)
       /\ nFaults < MaxFaults
       /\ ~Blocked(t, q)
       /\ (q.kind = "INSERT" /\ r.writes # <<>>) => nextId[k.op.tbl] <= MaxId
       /\ nFaults' = nFaults + 1
       /\ nextId' = IF q.kind = "INSERT" /\ nextId[k.op.tbl] <= MaxId
                    THEN [nextId EXCEPT ![k.op.tbl] = @ + 1] ELSE nextId
       /\ tx' = [tx EXCEPT ![t] = @ \o r.writes]
       /\ \E kind \in {"CancelledError", "InterfaceError"} :
             task' = [task EXCEPT ![t] =
                        Raise([k EXCEPT !.stmts = @ \cup {q.kind}], LowExc(kind))]
       /\ UNCHANGED <<store, poolOut, nOps, connection_pool, pools>>
       /\ NoneDone
       /\ Observe(t)

\* the store accepts an INSERT but hands back no row (the row was suppressed
\* on its side): fetchrow returns None and nothing is written
StmtNoRow(t) ==
    LET k == task[t]
        fn == RepoCall(k.op, k.phase)
        q == QueryOf(k.op, fn)
    IN /\ k.pc = "stmt"
       /\ fn = "create"
       /\ nFaults < MaxFaults
       /\ ~Blocked(t, q)
       /\ nFaults' = nFaults + 1
       /\ nextId' = IF nextId[k.op.tbl] <= MaxId
                    THEN [nextId EXCEPT ![k.op.tbl] = @ + 1] ELSE nextId
       /\ task' = [task EXCEPT ![t] =
                     [k EXCEPT !.pc = "txexit",
                               !.out = RepoResult(k.op, fn, Val(NoneV)),
                               !.stmts = @ \cup {q.kind}]]
       /\ UNCHANGED <<store, poolOut, tx, nOps, connection_pool, pools>>
       /\ NoneDone
       /\ Observe(t)

\* the surrounding request is cancelled while the task is suspended
Cancel(t) ==
    /\ task[t].pc \in {"acq", "begin", "stmt", "acq2", "stmt2"}
    /\ nFaults < MaxFaults
    /\ nFaults' = nFaults + 1
    /\ task' = [task EXCEPT ![t] = Raise(@, LowExc("CancelledError"))]
    /\ UNCHANGED <<store, nextId, poolOut, tx, nOps, connection_pool, pools>>
    /\ NoneDone
    /\ Observe(t)

\* the adapter takes the result
Deliver(t) ==
    /\ task[t].pc = "done"
    /\ task' = [task EXCEPT ![t] = IdleTask]
    /\ UNCHANGED <<store, nextId, poolOut, tx, nOps, nFaults, connection_pool, pools>>
    /\ Observe(t)

Next ==
    \E t \in Tasks :
        \/ Start(t)
        \/ Acquire(t)
        \/ Begin(t)
        \/ Stmt(t)
        \/ Acquire2(t)
        \/ Stmt2(t)
        \/ Release2(t)
        \/ TxExit(t)
        \/ Release(t)
        \/ AcquireFault(t)
        \/ StmtFault(t)
        \/ StmtLost(t)
        \/ Cancel(t)
        \/ Deliver(t)

Spec == Init /\ [][Next]_vars

\* one task serving requests one after the other
StartSeq == StartFrom("t1", MaxSeqOps, OpChoices \cup FindAllChoices)

NextSeq ==
    \/ StartSeq
    \/ Acquire("t1")
    \/ Begin("t1")
    \/ Stmt("t1")
    \/ Acquire2("t1")
    \/ Stmt2("t1")
    \/ Release2("t1")
    \/ TxExit("t1")
    \/ Release("t1")
    \/ AcquireFault("t1")
    \/ StmtFault("t1")
    \/ StmtLost("t1")
    \/ StmtNoRow("t1")
    \/ Cancel("t1")
    \/ Deliver("t1")

SpecSeq == Init /\ [][NextSeq]_vars

\* two tasks that only create, with business keys the store does not hold yet
RaceCreates ==
    {Op("create", "proveedor", 0, One("nit", "n2")),
     Op("create", "compra_proveedor", 0, Two("factura", "f2", "id_proveedor", IdStr(1)))}

StartRace(t) == StartFrom(t, MaxOps, RaceCreates)

NextRace ==
    \E t \in Tasks :
        \/ StartRace(t)
        \/ Acquire(t)
        \/ Begin(t)
        \/ Stmt(t)
        \/ TxExit(t)
        \/ Release(t)
        \/ AcquireFault(t)
        \/ StmtFault(t)
        \/ StmtLost(t)
        \/ Cancel(t)
        \/ Deliver(t)

SpecRace == Init /\ [][NextRace]_vars

-----------------------------------------------------------------------------
(* The query builders called on their own: any field map, any table.       *)

\* most fields a field map handed to a builder holds
MaxFields == 3

BuildFields == {"nit", "descripcion", "factura"}

BuildValues == {"n1", NULL}

\* the dicts of n items, each as its items in iteration order: keys are distinct
RECURSIVE FieldMapsOfLen(_)
FieldMapsOfLen(n) ==
    IF n = 0 THEN {<<>>}
    ELSE UNION {{Append(m, <<f, v>>) :
                    f \in BuildFields \ {m[i][1] : i \in 1..Len(m)},
                    v \in BuildValues} :
                m \in FieldMapsOfLen(n - 1)}

FieldMaps == UNION {FieldMapsOfLen(n) : n \in 0..MaxFields}

\* a builder returns or raises without suspending: call o is over with outcome r
Built(o, r) ==
    [IdleTask EXCEPT !.pc = "done", !.op = o, !.phase = 1, !.low = r, !.result = r]

BuildInsert(t) ==
    /\ task[t].pc = "idle"
    /\ nOps < MaxOps
    /\ \E tbl \in Tables, data \in FieldMaps :
          task' = [task EXCEPT ![t] =
                      Built(Op("build_insert_query", tbl, 0, data),
                            build_insert_query(tbl, data))]
    /\ nOps' = nOps + 1
    /\ UNCHANGED <<store, nextId, poolOut, tx, nFaults, connection_pool, pools>>
    /\ Observe(t)

BuildUpdate(t) ==
    /\ task[t].pc = "idle"
    /\ nOps < MaxOps
    /\ \E tbl \in Tables, id \in OpIds, update_data \in FieldMaps :
          task' = [task EXCEPT ![t] =
                      Built(Op("build_update_query", tbl, id, update_data),
                            build_update_query(tbl, update_data, IdField(tbl), id))]
    /\ nOps' = nOps + 1
    /\ UNCHANGED <<store, nextId, poolOut, tx, nFaults, connection_pool, pools>>
    /\ Observe(t)

NextBuild ==
    \/ BuildInsert("t1")
    \/ BuildUpdate("t1")
    \/ Deliver("t1")

SpecBuild == Init /\ [][NextBuild]_vars

-----------------------------------------------------------------------------
(* The connection manager on its own: connect, disconnect and health_check  *)
(* called on the singleton `db` before lifespan has established a pool.     *)

\* calls made on the connection manager
MaxDbOps == 4

\* pools asyncpg.create_pool hands out
MaxPools == 2

DbOp(name) == Op(name, "proveedor", 0, Empty)

InitDb ==
    /\ store = [tbl \in Tables |->
                  IF tbl = "proveedor"
                  THEN One(1, Two("nit", "n1", "descripcion", "d1"))
                  ELSE One(1, Two("factura", "f1", "id_proveedor", IdStr(1)))]
    /\ nextId = [tbl \in Tables |-> 2]
    /\ poolOut = 0
    /\ tx = [t \in Tasks |-> <<>>]
    /\ task = [t \in Tasks |-> IdleTask]
    /\ nOps = 0
    /\ nFaults = 0
    /\ hist = [t \in Tasks |-> NoHist]
    /\ deleted = {}
    /\ connection_pool = NonePool
    /\ pools = <<>>

\* the call o is over with outcome r
DbDone(o, r) == [IdleTask EXCEPT !.pc = "done", !.op = o, !.low = r, !.result = r]

\* health_check without its except clause
HealthResult_Reraise(r) == r

\* health_check: except Exception -> return False
HealthResult(r) ==
    IF r.t = "exc" /\ IsException(r.e) THEN Val(BoolV(FALSE)) ELSE r

\* connect() without its `is None` test
Connect_AlwaysCreate(t) ==
    /\ task[t].pc = "idle"
    /\ nOps < MaxDbOps
    /\ task' = [task EXCEPT ![t] =
                  [IdleTask EXCEPT !.pc = "create_pool", !.op = DbOp("connect"),
                                   !.pool = connection_pool]]
    /\ nOps' = nOps + 1
    /\ UNCHANGED <<store, nextId, poolOut, tx, nFaults, connection_pool, pools>>
    /\ NoneDone
    /\ Observe(t)

\* connect(): returns at once when the handle is set, else awaits create_pool
\* (`pool` keeps the handle the call found)
Connect(t) ==
    /\ task[t].pc = "idle"
    /\ nOps < MaxDbOps
    /\ task' = [task EXCEPT ![t] =
                  IF connection_pool # NonePool
                  THEN [DbDone(DbOp("connect"), Val(NoneV))
                           EXCEPT !.pool = connection_pool]
                  ELSE [IdleTask EXCEPT !.pc = "create_pool", !.op = DbOp("connect")]]
    /\ nOps' = nOps + 1
    /\ UNCHANGED <<store, nextId, poolOut, tx, nFaults, connection_pool, pools>>
    /\ NoneDone
    /\ Observe(t)

\* disconnect(): returns at once when the handle is None, else awaits
\* close() of the pool the handle names
Disconnect(t) ==
    /\ task[t].pc = "idle"
    /\ nOps < MaxDbOps
    /\ task' = [task EXCEPT ![t] =
                  IF connection_pool = NonePool
                  THEN DbDone(DbOp("disconnect"), Val(NoneV))
                  ELSE [IdleTask EXCEPT !.pc = "close", !.op = DbOp("disconnect"),
                                        !.pool = connection_pool]]
    /\ nOps' = nOps + 1
    /\ UNCHANGED <<store, nextId, poolOut, tx, nFaults, connection_pool, pools>>
    /\ NoneDone
    /\ Observe(t)

\* health_check() enters get_connection(): connect() first when the handle
\* is None, else pool.acquire() on the pool the handle names
HealthCheck(t) ==
    /\ task[t].pc = "idle"
    /\ nOps < MaxDbOps
    /\ task' = [task EXCEPT ![t] =
                  IF connection_pool = NonePool
                  THEN [IdleTask EXCEPT !.pc = "create_pool",
                                        !.op = DbOp("health_check")]
                  ELSE [IdleTask EXCEPT !.pc = "hc_acq", !.op = DbOp("health_check"),
                                        !.pool = connection_pool]]
    /\ nOps' = nOps + 1
    /\ UNCHANGED <<store, nextId, poolOut, tx, nFaults, connection_pool, pools>>
    /\ NoneDone
    /\ Observe(t)

\* await asyncpg.create_pool(...) returns a new pool and the handle is assigned
CreatePool(t) ==
    LET k == task[t]
        p == Len(pools) + 1
    IN /\ k.pc = "create_pool"
       /\ Len(pools) < MaxPools
       /\ pools' = Append(pools, "open")
       /\ connection_pool' = p
       /\ task' = [task EXCEPT ![t] =
                     IF k.op.name = "connect" THEN DbDone(k.op, Val(NoneV))
                     ELSE [k EXCEPT !.pc = "hc_acq", !.pool = p]]
       /\ UNCHANGED <<store, nextId, poolOut, tx, nOps, nFaults>>
       /\ NoneDone
       /\ Observe(t)

\* asyncpg.create_pool raises: connect() logs and re-raises
CreatePoolFault(t) ==
    LET k == task[t]
        r == Exc(LowExc("PostgresError"))
    IN /\ k.pc = "create_pool"
       /\ nFaults < MaxFaults
       /\ nFaults' = nFaults + 1
       /\ task' = [task EXCEPT ![t] =
                     DbDone(k.op, IF k.op.name = "connect" THEN r ELSE HealthResult(r))]
       /\ UNCHANGED <<store, nextId, poolOut, tx, nOps, connection_pool, pools>>
       /\ NoneDone
       /\ Observe(t)

\* await pool.close() returns once every connection is back; the handle is cleared
ClosePool(t) ==
    LET k == task[t]
    IN /\ k.pc = "close"
       /\ poolOut = 0
       /\ pools' = [pools EXCEPT ![k.pool] = "closed"]
       /\ connection_pool' = NonePool
       /\ task' = [task EXCEPT ![t] = DbDone(k.op, Val(NoneV))]
       /\ UNCHANGED <<store, nextId, poolOut, tx, nOps, nFaults>>
       /\ NoneDone
       /\ Observe(t)

\* pool.close() fails: asyncpg terminates the pool and re-raises, and
\* disconnect() is left before the handle is cleared
CloseFault(t) ==
    LET k == task[t]
    IN /\ k.pc = "close"
       /\ nFaults < MaxFaults
       /\ nFaults' = nFaults + 1
       /\ pools' = [pools EXCEPT ![k.pool] = "closed"]
       /\ task' = [task EXCEPT ![t] = DbDone(k.op, Exc(LowExc("InterfaceError")))]
       /\ UNCHANGED <<store, nextId, poolOut, tx, nOps, connection_pool>>
       /\ NoneDone
       /\ Observe(t)

\* health_check: pool.acquire() hands out a connection
HealthAcquire(t) ==
    LET k == task[t]
    IN /\ k.pc = "hc_acq"
       /\ pools[k.pool] = "open"
       /\ poolOut < PoolSize
       /\ poolOut' = poolOut + 1
       /\ task' = [task EXCEPT ![t] = [k EXCEPT !.pc = "hc_query", !.held = 1]]
       /\ UNCHANGED <<store, nextId, tx, nOps, nFaults, connection_pool, pools>>
       /\ NoneDone
       /\ Observe(t)

\* health_check: pool.acquire() on a closed pool raises InterfaceError
HealthAcquireClosed(t) ==
    LET k == task[t]
    IN /\ k.pc = "hc_acq"
       /\ pools[k.pool] = "closed"
       /\ task' = [task EXCEPT ![t] =
                     DbDone(k.op, HealthResult(Exc(LowExc("InterfaceError"))))]
       /\ UNCHANGED <<store, nextId, poolOut, tx, nOps, nFaults,
                      connection_pool, pools>>
       /\ NoneDone
       /\ Observe(t)

\* health_check: await conn.fetchval("SELECT 1") returns
HealthQuery(t) ==
    LET k == task[t]
    IN /\ k.pc = "hc_query"
       /\ task' = [task EXCEPT ![t] =
                     [k EXCEPT !.pc = "hc_rel", !.out = Val(BoolV(TRUE)),
                               !.stmts = @ \cup {"SELECT"}]]
       /\ UNCHANGED <<store, nextId, poolOut, tx, nOps, nFaults,
                      connection_pool, pools>>
       /\ NoneDone
       /\ Observe(t)

\* health_check: the acquisition or the query fails, or the call is cancelled
HealthFault(t) ==
    LET k == task[t]
    IN /\ k.pc \in {"hc_acq", "hc_query"}
       /\ nFaults < MaxFaults
       /\ nFaults' = nFaults + 1
       /\ \E kind \in {"PostgresError", "InterfaceError", "CancelledError"} :
             task' = [task EXCEPT ![t] =
                         IF k.pc = "hc_acq"
                         THEN DbDone(k.op, HealthResult(Exc(LowExc(kind))))
                         ELSE [k EXCEPT !.pc = "hc_rel", !.out = Exc(LowExc(kind))]]
       /\ UNCHANGED <<store, nextId, poolOut, tx, nOps, connection_pool, pools>>
       /\ NoneDone
       /\ Observe(t)

\* health_check: the connection scope exits, then `return True` or the handler
HealthRelease(t) ==
    LET k == task[t]
    IN /\ k.pc = "hc_rel"
       /\ poolOut' = poolOut - 1
       /\ task' = [task EXCEPT ![t] =
                     [DbDone(k.op, HealthResult(k.out)) EXCEPT !.stmts = k.stmts]]
       /\ UNCHANGED <<store, nextId, tx, nOps, nFaults, connection_pool, pools>>
       /\ NoneDone
       /\ Observe(t)

NextDb ==
    \E t \in Tasks :
        \/ Connect(t)
        \/ Disconnect(t)
        \/ HealthCheck(t)
        \/ CreatePool(t)
        \/ CreatePoolFault(t)
        \/ ClosePool(t)
        \/ CloseFault(t)
        \/ HealthAcquire(t)
        \/ HealthAcquireClosed(t)
        \/ HealthQuery(t)
        \/ HealthFault(t)
        \/ HealthRelease(t)
        \/ Deliver(t)

SpecDb == InitDb /\ [][NextDb]_vars

\* the connection manager called by one task, one call after the other
NextDbSeq ==
    \/ Connect("t1")
    \/ Disconnect("t1")
    \/ HealthCheck("t1")
    \/ CreatePool("t1")
    \/ CreatePoolFault("t1")
    \/ ClosePool("t1")
    \/ CloseFault("t1")
    \/ HealthAcquire("t1")
    \/ HealthAcquireClosed("t1")
    \/ HealthQuery("t1")
    \/ HealthFault("t1")
    \/ HealthRelease("t1")
    \/ Deliver("t1")

SpecDbSeq == InitDb /\ [][NextDbSeq]_vars

-----------------------------------------------------------------------------
(* The entity-specific services with static methods: ProveedorService and   *)
(* CompraProveedorService write their statements themselves.               *)

\* the methods that open conn.transaction() inside their connection scope
LegacyInTx(op) == op.name \in {"update_compra_proveedor", "delete_compra_proveedor"}

\* update_proveedor: the fields that pass `proveedor_data.<field> is not None`
NotNoneFields(tbl, payload) ==
    SelectSeq(model_dump_WithUnset(tbl, payload), LAMBDA p : p[2] # NULL)

\* the fields a method puts in its SET clause
LegacyFields(op) ==
    IF op.name = "update_proveedor" THEN NotNoneFields(op.tbl, op.data)
    ELSE model_dump(op.tbl, op.data)

\* the mutating statement of a method
LegacyQuery(op) ==
    IF op.name \in {"update_proveedor", "update_compra_proveedor"}
    THEN build_update_query(op.tbl, LegacyFields(op), IdField(op.tbl), op.id).v
    ELSE DeleteQuery(op.tbl, IdField(op.tbl), op.id)

\* where a method first suspends once its scopes are entered: at its
\* statement, or at the connection of a nested get_..._by_id
LegacyFirst(op) ==
    CASE op.name = "delete_proveedor" -> "l_stmt"
      [] op.name = "update_proveedor" ->
            IF Len(LegacyFields(op)) = 0 THEN "acq2" ELSE "l_stmt"
      [] OTHER -> "acq2"

\* the except clauses of the CompraProveedorService methods
CompraHandle(e) ==
    IF e.kind = "CompraProveedorNotFoundError" THEN Exc(e)
    ELSE IF IsException(e) \/ e.kind = "CompraProveedorServiceError"
    THEN Exc(MkExc("CompraProveedorServiceError", Str(e), e))
    ELSE Exc(e)

\* what a method makes of the outcome r of its statement
LegacyResult(op, r) ==
    CASE op.name = "update_proveedor" ->
            IF r.t = "exc" /\ r.e.kind = "UniqueViolationError"
            THEN Exc(MkExc("ValueError", <<"Ya existe un proveedor con ese NIT">>, r.e))
            ELSE r
      [] op.name = "delete_proveedor" ->
            IF r.t = "val" THEN Val(BoolV(r.v.words = <<"DELETE", 1>>)) ELSE r
      [] op.name = "update_compra_proveedor" ->
            IF r.t = "exc" THEN CompraHandle(r.e)
            ELSE IF r.v.k = "none"
            THEN CompraHandle(MkExc("CompraProveedorServiceError",
                                    <<"No se pudo actualizar la compra">>, NoExc))
            ELSE r
      [] OTHER ->
            IF r.t = "exc" THEN CompraHandle(r.e)
            ELSE IF r.v.words[Len(r.v.words)] = 0
            THEN CompraHandle(MkExc("CompraProveedorServiceError",
                                    <<"No se pudo eliminar la compra">>, NoExc))
            ELSE Val(BoolV(TRUE))

\* what a method does with the outcome r of its nested get_..._by_id: the pc
\* it goes to and, unless it goes on to its statement, its outcome
LegacyAfterGet(op, r) ==
    IF op.name = "update_proveedor" THEN [pc |-> "rel", out |-> r]
    ELSE IF r.t = "exc" THEN [pc |-> "txexit", out |-> CompraHandle(r.e)]
    ELSE IF r.v.k = "none"
    THEN [pc |-> "txexit",
          out |-> Exc(MkExc("CompraProveedorNotFoundError",
                            <<"Compra con ID", IdStr(op.id), "no encontrada">>, NoExc))]
    ELSE IF op.name = "update_compra_proveedor" /\ Len(LegacyFields(op)) = 0
    THEN [pc |-> "txexit", out |-> r]
    ELSE [pc |-> "l_stmt", out |-> NoOut]

LegacyChoices ==
    {Op("delete_proveedor", "proveedor", id, Empty) : id \in OpIds}
    \cup {Op("update_proveedor", "proveedor", 1, d) : d \in UpdatePayloads("proveedor")}
    \cup {Op("update_compra_proveedor", "compra_proveedor", 1, d) :
             d \in UpdatePayloads("compra_proveedor")}
    \cup {Op("delete_compra_proveedor", "compra_proveedor", id, Empty) : id \in OpIds}

\* a static method is called and runs up to get_db_connection()
LegacyStart(t) ==
    /\ task[t].pc = "idle"
    /\ nOps < MaxOps
    /\ \E o \in LegacyChoices :
          task' = [task EXCEPT ![t] =
                      [IdleTask EXCEPT !.pc = "l_acq", !.op = o, !.phase = 1]]
    /\ nOps' = nOps + 1
    /\ UNCHANGED <<store, nextId, poolOut, tx, nFaults, connection_pool, pools>>
    /\ NoneDone
    /\ Observe(t)

\* async with get_db_connection() as conn
LegacyAcquire(t) ==
    LET k == task[t]
    IN /\ k.pc = "l_acq"
       /\ Established
       /\ poolOut < PoolSize
       /\ poolOut' = poolOut + 1
       /\ task' = [task EXCEPT ![t] =
                     [k EXCEPT !.held = @ + 1,
                               !.pc = IF LegacyInTx(k.op) THEN "l_begin"
                                      ELSE LegacyFirst(k.op)]]
       /\ UNCHANGED <<store, nextId, tx, nOps, nFaults, connection_pool, pools>>
       /\ NoneDone
       /\ Observe(t)

\* async with conn.transaction()
LegacyBegin(t) ==
    LET k == task[t]
    IN /\ k.pc = "l_begin"
       /\ task' = [task EXCEPT ![t] =
                     [k EXCEPT !.inTx = TRUE, !.pc = LegacyFirst(k.op)]]
       /\ UNCHANGED <<store, nextId, poolOut, tx, nOps, nFaults,
                      connection_pool, pools>>
       /\ NoneDone
       /\ Observe(t)

\* get_..._by_id: conn.fetchrow(SELECT) on the nested connection
LegacyStmt2(t) ==
    LET k == task[t]
        q == SelectByIdQuery(k.op.tbl, IdField(k.op.tbl), k.op.id)
        r == ExecQuery(store, nextId[k.op.tbl], q)
    IN /\ k.pc = "stmt2"
       /\ task' = [task EXCEPT ![t] =
                     [k EXCEPT !.pc = "rel2", !.out = r.out,
                               !.stmts = @ \cup {q.kind}]]
       /\ UNCHANGED <<store, nextId, poolOut, tx, nOps, nFaults,
                      connection_pool, pools>>
       /\ NoneDone
       /\ Observe(t)

\* the nested connection scope exits and the method goes on
LegacyRelease2(t) ==
    LET k == task[t]
        n == LegacyAfterGet(k.op, k.out)
    IN /\ k.pc = "rel2"
       /\ poolOut' = poolOut - 1
       /\ task' = [task EXCEPT ![t] =
                     [k EXCEPT !.pc = n.pc, !.held = @ - 1, !.out = n.out]]
       /\ UNCHANGED <<store, nextId, tx, nOps, nFaults, connection_pool, pools>>
       /\ NoneDone
       /\ Observe(t)

\* conn.fetchrow(UPDATE) / conn.execute(DELETE): inside conn.transaction()
\* the write waits for the commit, on a bare connection it is committed with
\* the statement
LegacyStmt(t) ==
    LET k == task[t]
        q == LegacyQuery(k.op)
        r == ExecQuery(store, nextId[k.op.tbl], q)
    IN /\ k.pc = "l_stmt"
       /\ ~Blocked(t, q)
       /\ tx' = [tx EXCEPT ![t] = IF k.inTx THEN @ \o r.writes ELSE @]
       /\ store' = IF k.inTx THEN store ELSE ApplyWrites(store, r.writes)
       /\ task' = [task EXCEPT ![t] =
                     [k EXCEPT !.pc = IF k.inTx THEN "txexit" ELSE "rel",
                               !.out = LegacyResult(k.op, r.out),
                               !.stmts = @ \cup {q.kind}]]
       /\ UNCHANGED <<nextId, poolOut, nOps, nFaults, connection_pool, pools>>
       /\ NoneDone
       /\ Observe(t)

NextLegacy ==
    \E t \in Tasks :
        \/ LegacyStart(t)
        \/ LegacyAcquire(t)
        \/ LegacyBegin(t)
        \/ Acquire2(t)
        \/ LegacyStmt2(t)
        \/ LegacyRelease2(t)
        \/ LegacyStmt(t)
        \/ TxExit(t)
        \/ Release(t)
        \/ Deliver(t)

SpecLegacy == Init /\ [][NextLegacy]_vars

\* the event loop resumes every coroutine that can go on, and the store
\* answers every statement that is not blocked; calls arrive or not
FairLegacy ==
    \A t \in Tasks :
        /\ WF_vars(LegacyAcquire(t))
        /\ WF_vars(LegacyBegin(t))
        /\ WF_vars(Acquire2(t))
        /\ WF_vars(LegacyStmt2(t))
        /\ WF_vars(LegacyRelease2(t))
        /\ WF_vars(LegacyStmt(t))
        /\ WF_vars(TxExit(t))
        /\ WF_vars(Release(t))
        /\ WF_vars(Deliver(t))

SpecLegacyFair == SpecLegacy /\ FairLegacy

-----------------------------------------------------------------------------
(* Properties *)

Done(t) == task[t].pc = "done"

IsWriteOp(op) ==
    op.name \in {"create", "update", "delete", "repo_update", "repo_delete"}

\* the failure came out of the store or the driver, or the request was cancelled
Faulted(r) ==
    r.t = "exc" /\ Root(r.e).kind \in (StoreKinds \cup {"CancelledError"})

RECURSIVE SumHeld(_)
SumHeld(S) ==
    IF S = {} THEN 0
    ELSE LET t == CHOOSE x \in S : TRUE IN task[t].held + SumHeld(S \ {t})

\* C1: the writes of a transaction scope reach the store together when the
\* scope exits normally and never otherwise: no step of a task changes the
\* store while its scope is open, a create, update or delete that ends in a
\* failure or a cancellation has changed nothing, and one that ends in success
\* has its row in (or out of) the store.
C1_TransactionAtomic ==
    \A t \in Tasks :
        LET k == task[t]
        IN /\ (Running(t) /\ k.pc # "rel") => ~hist[t].changed
           /\ (Done(t) /\ IsWriteOp(k.op) /\ k.result.t = "exc") => ~hist[t].changed
           /\ (Done(t) /\ k.op.name = "create" /\ k.result.t = "val"
                 /\ ~hist[t].interf) =>
                 /\ k.result.v.id \in DOMAIN store[k.op.tbl]
                 /\ store[k.op.tbl][k.result.v.id] = k.result.v.f
           /\ (Done(t) /\ k.op.name \in {"delete", "repo_delete"}
                 /\ k.result.t = "val") =>
                 k.op.id \notin DOMAIN store[k.op.tbl]

\* C1 witness: a transaction whose statement has written is about to exit on
\* a failure
C1_Witness ==
    \E t \in Tasks :
        task[t].pc = "txexit" /\ task[t].out.t = "exc" /\ tx[t] # <<>>

\* C2: every connection taken from the pool is held by exactly one running
\* scope and is back in the pool once the scope has exited, on a failure as on
\* a return: with no request running, none is checked out.
C2_ConnectionsReleased ==
    /\ poolOut = SumHeld(Tasks)
    /\ poolOut <= PoolSize
    /\ \A t \in Tasks : ~Running(t) => task[t].held = 0
    /\ (\A t \in Tasks : ~Running(t)) => poolOut = 0

\* C2 witness: a request that took a connection has ended in a failure, and
\* nothing is running
C2_Witness ==
    /\ \A t \in Tasks : ~Running(t)
    /\ \E t \in Tasks :
          Done(t) /\ task[t].result.t = "exc" /\ task[t].stmts # {}

\* C3: Service.create and Service.update turn a uniqueness violation into
\* Duplicate, a foreign-key violation into ForeignKeyViolation and every other
\* store failure into DatabaseError; no store failure reaches the caller as
\* anything else.
C3_StoreFailureMapping ==
    \A t \in Tasks :
        LET k == task[t]
            root == Root(k.result.e).kind
        IN (Done(t) /\ k.op.name \in {"create", "update"} /\ k.result.t = "exc"
              /\ root \in StoreKinds) =>
              k.result.e.kind =
                 CASE root = "UniqueViolationError" -> "DuplicateError"
                   [] root = "ForeignKeyViolationError" -> "ForeignKeyError"
                   [] OTHER -> "DatabaseError"

\* C3 witness: an update has ended in Duplicate
C3_Witness ==
    \E t \in Tasks :
        /\ Done(t) /\ task[t].op.name = "update"
        /\ task[t].result.e.kind = "DuplicateError"

IsServiceOp(op) == op.name \in {"get_by_id", "get_all", "create", "update", "delete"}

Present(op) == op.id \in DOMAIN store[op.tbl]

\* the entity as the store holds it now
Current(op) == RowV(op.id, store[op.tbl][op.id])

\* the text d ends with the text e
EndsWith(d, e) ==
    /\ Len(d) >= Len(e)
    /\ SubSeq(d, Len(d) - Len(e) + 1, Len(d)) = e

\* C4: in every Service operation a domain failure raised below it reaches
\* the caller with the same kind and the same detail, every other failure
\* (constraint violations aside, which have kinds of their own) reaches it as a
\* DatabaseError carrying the original detail, and no failure becomes a success.
C4_FailuresReachCallerUnchanged ==
    \A t \in Tasks :
        LET k == task[t]
        IN (Done(t) /\ IsServiceOp(k.op) /\ k.low.t = "exc") =>
              /\ k.result.t = "exc"
              /\ k.low.e.kind \in DomainKinds =>
                    /\ k.result.e.kind = k.low.e.kind
                    /\ k.result.e.detail = k.low.e.detail
              /\ k.low.e.kind \in {"PostgresError", "InterfaceError", "ValueError"} =>
                    /\ k.result.e.kind = "DatabaseError"
                    /\ EndsWith(k.result.e.detail, Str(k.low.e))

\* C5: Service.get_by_id returns the entity when the row exists, fails with
\* NotFound when the repository reports it absent, and never returns None.
C5_GetByIdPromotesAbsent ==
    \A t \in Tasks :
        LET k == task[t]
        IN (Done(t) /\ k.op.name = "get_by_id") =>
              /\ k.result # Val(NoneV)
              /\ k.low = Val(NoneV) =>
                    k.result = Exc(NotFoundError(EntityName(k.op.tbl), k.op.id))
              /\ (k.low.t = "val" /\ k.low.v.k = "row") => k.result = k.low
              /\ (~hist[t].interf /\ ~Faulted(k.result)) =>
                    IF Present(k.op)
                    THEN k.result = Val(Current(k.op))
                    ELSE k.result.e.kind = "NotFoundError"

\* C5 witness: get_by_id of an absent row has ended in NotFound
C5_Witness ==
    \E t \in Tasks :
        /\ Done(t) /\ task[t].op.name = "get_by_id"
        /\ task[t].low = Val(NoneV)
        /\ task[t].result.e.kind = "NotFoundError"

C7_RepoEmptyUpdate ==
    \A t \in Tasks :
        LET k == task[t]
        IN (k.op.name = "repo_update" /\ k.op.data = Empty) =>
              /\ k.stmts \subseteq {"SELECT"}
              /\ tx[t] = <<>> /\ ~hist[t].changed
              /\ (Done(t) /\ k.result.t = "val") =>
                    /\ k.result.v.k = "row" /\ k.result.v.id = k.op.id
                    /\ ~hist[t].interf => (Present(k.op) /\ k.result.v = Current(k.op))
              /\ (Done(t) /\ ~hist[t].interf /\ ~Faulted(k.result)) =>
                    IF Present(k.op) THEN k.result.t = "val"
                    ELSE k.result = Exc(NotFoundError(k.op.tbl, k.op.id))

\* C7 witness: Repository.update with an empty field map has failed with
\* NotFound
C7_Witness ==
    \E t \in Tasks :
        /\ Done(t) /\ task[t].op.name = "repo_update" /\ task[t].op.data = Empty
        /\ task[t].result.e.kind = "NotFoundError"

\* C8: Repository.update with a non-empty field map fails with NotFound when
\* its UPDATE affects no row, and then it has changed no row; it returns an
\* entity only when the store returned the updated row.
C8_RepoUpdateZeroRows ==
    \A t \in Tasks :
        LET k == task[t]
        IN (Done(t) /\ k.op.name = "repo_update" /\ k.op.data # Empty) =>
              /\ k.result.t = "val" =>
                    /\ k.result.v.k = "row" /\ k.result.v.id = k.op.id
                    /\ "UPDATE" \in k.stmts
                    /\ ~hist[t].interf => (Present(k.op) /\ k.result.v = Current(k.op))
              /\ k.result.e.kind = "NotFoundError" =>
                    /\ k.result = Exc(NotFoundError(k.op.tbl, k.op.id))
                    /\ ~hist[t].changed
              /\ (~hist[t].interf /\ ~Present(k.op) /\ ~Faulted(k.result)) =>
                    k.result.e.kind = "NotFoundError"

\* C8 witness: an UPDATE of an absent id has ended in NotFound
C8_Witness ==
    \E t \in Tasks :
        /\ Done(t) /\ task[t].op.name = "repo_update" /\ task[t].op.data # Empty
        /\ "UPDATE" \in task[t].stmts
        /\ task[t].result.e.kind = "NotFoundError"

\* C9: Repository.delete returns success only when its DELETE removed a row;
\* when the DELETE affects no row it fails with NotFound.
C9_RepoDeleteCount ==
    \A t \in Tasks :
        LET k == task[t]
        IN (Done(t) /\ k.op.name = "repo_delete") =>
              /\ k.result.t = "val" => (k.result.v = BoolV(TRUE) /\ hist[t].changed)
              /\ (k.result.t = "exc" /\ ~Faulted(k.result)) =>
                    k.result = Exc(NotFoundError(k.op.tbl, k.op.id))
              /\ k.result.t = "exc" => ~hist[t].changed

\* C9 witness: a DELETE of an absent id has ended in NotFound
C9_Witness ==
    \E t \in Tasks :
        /\ Done(t) /\ task[t].op.name = "repo_delete"
        /\ "DELETE" \in task[t].stmts
        /\ task[t].result.e.kind = "NotFoundError"

\* C10: once Service.delete(id) has returned success the row stays absent, and
\* every get_by_id(id) started afterwards fails: with NotFound, unless the read
\* itself fails in the store or is cancelled.
C10_DeletedStaysNotFound ==
    /\ \A d \in deleted : d[2] \notin DOMAIN store[d[1]]
    /\ \A t \in Tasks :
          LET k == task[t]
          IN (Done(t) /\ k.op.name = "get_by_id" /\ hist[t].afterDel) =>
                /\ k.result.t = "exc"
                /\ ~Faulted(k.result) => k.result.e.kind = "NotFoundError"

\* C10 witness: after a successful delete and a create in the same table, a
\* get_by_id of the deleted id has ended in NotFound
C10_Witness ==
    \E t \in Tasks :
        /\ Done(t) /\ task[t].op.name = "get_by_id" /\ hist[t].afterDel
        /\ task[t].result.e.kind = "NotFoundError"
        /\ nextId[task[t].op.tbl] > 2

\* the failure came from the environment: a store fault that is no constraint
\* violation, a lost connection, or a cancellation
EnvFault(r) ==
    r.t = "exc" /\ Root(r.e).kind \in {"PostgresError", "InterfaceError", "CancelledError"}

KeyOf(op) == op.data[UniqueField(op.tbl)]

\* the ids of the rows that hold the business key of op
KeyHolders(op) ==
    {j \in DOMAIN store[op.tbl] : store[op.tbl][j][UniqueField(op.tbl)] = KeyOf(op)}

\* C12: a create whose business key is already in the store fails with
\* Duplicate from a pre-check, before any INSERT is issued to the store.
C12_DuplicateBeforeInsert ==
    \A t \in Tasks :
        LET k == task[t]
        IN (Done(t) /\ k.op.name = "create" /\ KeyHolders(k.op) # {}
              /\ ~hist[t].changed /\ ~hist[t].interf /\ ~EnvFault(k.result)) =>
              /\ k.result.t = "exc"
              /\ k.result.e.kind = "DuplicateError"
              /\ "INSERT" \notin k.stmts

\* C13: of the creates that carry one business key and race, one succeeds and
\* every other fails with Duplicate, whatever the interleaving, and the store
\* never holds two rows with the same business key.
C13_OneCreateWins ==
    /\ \A tbl \in Tables : \A i, j \in DOMAIN store[tbl] :
          i # j => store[tbl][i][UniqueField(tbl)] # store[tbl][j][UniqueField(tbl)]
    /\ \A t \in Tasks :
          LET k == task[t]
          IN (Done(t) /\ k.op.name = "create" /\ nFaults = 0) =>
                \/ /\ k.result.t = "val"
                   /\ hist[t].changed
                   /\ KeyHolders(k.op) = {k.result.v.id}
                \/ /\ k.result.t = "exc"
                   /\ k.result.e.kind = "DuplicateError"
                   /\ ~hist[t].changed
                   /\ KeyHolders(k.op) # {}

\* C13 witness: a create has lost the race: the row that holds its key was
\* committed while it was running, and it has ended in Duplicate
C13_Witness ==
    \E t \in Tasks :
        /\ Done(t) /\ task[t].op.name = "create" /\ nFaults = 0
        /\ hist[t].interf
        /\ "INSERT" \in task[t].stmts
        /\ task[t].result.e.kind = "DuplicateError"

\* the supplier a purchase payload names is in the store
SupplierPresent(op) ==
    op.data[FkField] \in {IdStr(i) : i \in DOMAIN store[FkParent]}

C16_CreateNeedsRow ==
    \A t \in Tasks :
        LET k == task[t]
        IN /\ (k.op.name = "create" /\ k.pc \in {"txexit", "rel"}) =>
                 k.out # Val(NoneV)
           /\ (Done(t) /\ k.op.name = "create") =>
                 /\ k.low # Val(NoneV)
                 /\ k.low.t = "val" =>
                       /\ k.low.v.k = "row"
                       /\ "INSERT" \in k.stmts
                       /\ hist[t].changed
                       /\ k.low.v.id \in DOMAIN store[k.op.tbl]
                       /\ store[k.op.tbl][k.low.v.id] = k.low.v.f
                 /\ ~hist[t].changed =>
                       (k.low.t = "exc" /\ k.result.t = "exc")

\* C16 witness: an INSERT came back without a row and Repository.create has
\* failed with DatabaseError
C16_Witness ==
    \E t \in Tasks :
        /\ Done(t) /\ task[t].op.name = "create"
        /\ "INSERT" \in task[t].stmts
        /\ task[t].low = Exc(DatabaseError(<<"No se pudo crear el registro">>, NoExc))
        /\ ~hist[t].changed

\* C17: Repository.find_by_id returns the absent result, and no failure, when
\* no row has the id, returns the entity when one does, and fails with
\* DatabaseError on every fault of the store or the driver below it.
C17_FindByIdOutcomes ==
    \A t \in Tasks :
        LET k == task[t]
        IN (Done(t) /\ k.op.name = "get_by_id") =>
              /\ (k.low.t = "val" /\ ~hist[t].interf) =>
                    k.low = IF Present(k.op) THEN Val(Current(k.op)) ELSE Val(NoneV)
              /\ (k.low.t = "exc" /\ Root(k.low.e).kind \in StoreKinds) =>
                    k.low.e.kind = "DatabaseError"
              /\ k.low.t = "exc" => k.low.e.kind # "NotFoundError"

\* C18: Repository.find_all returns the rows by ascending id when no order_by
\* is given, returns every row when no limit is given, and for every provided
\* limit L >= 0 returns at most L rows.
C18_FindAllOrderAndLimit ==
    \A t \in Tasks :
        LET k == task[t]
            rows == k.low.v.rows
            lim == k.op.data["limit"]
        IN (Done(t) /\ k.op.name = "repo_find_all" /\ k.low.t = "val") =>
              /\ k.op.data["order_by"] = "" =>
                    \A i, j \in 1..Len(rows) : i < j => rows[i].id < rows[j].id
              /\ lim = NoneLimit =>
                    Len(rows) = Cardinality(DOMAIN store[k.op.tbl])
              /\ lim # NoneLimit => Len(rows) <= lim

\* a builder call that has returned or raised
IsBuild(t) ==
    Done(t) /\ task[t].op.name \in {"build_insert_query", "build_update_query"}

\* C19: build_insert_query and build_update_query raise ValueError when the
\* field map they are given is empty, and only then.
C19_ValueErrorIffEmpty ==
    \A t \in Tasks :
        IsBuild(t) =>
            (task[t].result = Exc(LowExc("ValueError")) <=> Len(task[t].op.data) = 0)
            /\ (task[t].result.t = "val" <=> Len(task[t].op.data) > 0)

\* C19 witness: build_insert_query was given the empty field map and has
\* raised ValueError
C19_Witness ==
    \E t \in Tasks :
        /\ IsBuild(t) /\ task[t].op.name = "build_insert_query"
        /\ Len(task[t].op.data) = 0
        /\ task[t].result = Exc(LowExc("ValueError"))

\* C20: the query a builder returns names the fields in the iteration order of
\* the field map, gives the i-th field the placeholder $i, and binds the values
\* in the same order; build_update_query compares the id field with
\* $(n+1) and binds n+1 arguments, the id last; build_insert_query binds n.
\* Every part of the output is thereby fixed by the inputs.
C20_PlaceholdersInOrder ==
    \A t \in Tasks :
        LET k == task[t]
            n == Len(k.op.data)
            q == k.result.v
        IN (IsBuild(t) /\ k.result.t = "val") =>
              /\ Len(q.fields) = n /\ Len(q.ph) = n
              /\ \A i \in 1..n :
                    /\ q.fields[i] = k.op.data[i][1]
                    /\ q.ph[i] = i
                    /\ q.values[q.ph[i]] = k.op.data[i][2]
              /\ q.table = k.op.tbl
              /\ k.op.name = "build_insert_query" =>
                    q.kind = "INSERT" /\ Len(q.values) = n
              /\ k.op.name = "build_update_query" =>
                    /\ q.kind = "UPDATE"
                    /\ q.where = IdField(k.op.tbl)
                    /\ q.wherePh = n + 1
                    /\ Len(q.values) = n + 1
                    /\ q.values[n + 1] = k.op.id

\* C20 witness: build_update_query has returned the query of a field map of
\* two or more fields with different values, the id bound last
C20_Witness ==
    \E t \in Tasks :
        /\ IsBuild(t) /\ task[t].op.name = "build_update_query"
        /\ task[t].result.t = "val"
        /\ Len(task[t].op.data) >= 2
        /\ task[t].op.data[1][2] # task[t].op.data[2][2]
        /\ task[t].result.v.wherePh = Len(task[t].op.data) + 1
        /\ task[t].result.v.values[Len(task[t].op.data) + 1] = task[t].op.id

\* C21: a connect() called while the handle names a pool returns at once:
\* it creates no pool and leaves the handle as it was, however many calls
\* came before it.
C21_ConnectIdempotent ==
    [][\A t \in Tasks :
          (/\ task[t].pc = "idle" /\ task'[t].pc # "idle"
           /\ task'[t].op.name = "connect"
           /\ connection_pool # NonePool) =>
              /\ task'[t].pc = "done" /\ task'[t].result = Val(NoneV)
              /\ pools' = pools
              /\ connection_pool' = connection_pool]_vars

\* C21 witness: the third call in a row is a connect() that found the pool
\* established and has returned with the same single pool in place
C21_Witness ==
    \E t \in Tasks :
        /\ Done(t) /\ task[t].op.name = "connect" /\ task[t].result = Val(NoneV)
        /\ task[t].pool # NonePool /\ connection_pool = task[t].pool
        /\ nOps >= 3 /\ pools = <<"open">>

\* C22: in a sequence of connect() and disconnect() calls made one after the
\* other, a pool is established exactly when the last call was a successful
\* connect(): a connect() that returned leaves the handle on an open pool, a
\* connect() that raised leaves none established, and after a disconnect()
\* none is established, the pool being closed and the handle cleared.
C22_EstablishedIffLastConnect ==
    \A t \in Tasks :
        LET k == task[t]
        IN /\ (Done(t) /\ k.op.name = "connect") =>
                 (Established <=> k.result.t = "val")
           /\ (Done(t) /\ k.op.name = "disconnect") =>
                 /\ ~Established
                 /\ k.result.t = "val" =>
                       /\ connection_pool = NonePool
                       /\ \A p \in 1..Len(pools) : pools[p] = "closed"

\* the pools that have been created and not closed
OpenPools == {p \in 1..Len(pools) : pools[p] = "open"}

\* C23: at any time at most one connection pool exists in the process, and it
\* is the one the handle names, also when several tasks call connect() or
\* get_connection() at once while no pool is established.
C23_AtMostOnePool ==
    /\ Cardinality(OpenPools) <= 1
    /\ OpenPools \subseteq {connection_pool}

\* C25: health_check() returns a boolean and raises no failure: true when
\* the round-trip query has succeeded, false on every failure of the pool
\* creation, of the acquisition or of the query.  (Cancelling the caller is
\* not a failure of the check: CancelledError passes through.)
C25_HealthCheckBoolean ==
    \A t \in Tasks :
        LET k == task[t]
        IN (Done(t) /\ k.op.name = "health_check") =>
              IF k.result.t = "exc"
              THEN k.result.e.kind = "CancelledError"
              ELSE k.result = Val(BoolV("SELECT" \in k.stmts))

\* C25 witness: no pool could be established and health_check has returned false
C25_Witness ==
    \E t \in Tasks :
        /\ Done(t) /\ task[t].op.name = "health_check"
        /\ task[t].result = Val(BoolV(FALSE))
        /\ connection_pool = NonePool /\ pools = <<>>

\* task t is suspended in, or about to issue, an INSERT, UPDATE or DELETE
AtMutation(t) ==
    \/ task[t].pc = "stmt" /\ IsMutation(RepoCall(task[t].op, task[t].phase))
    \/ task[t].pc = "l_stmt"

\* C26: every INSERT, UPDATE or DELETE, of the generic repository or of an
\* entity-specific service, is issued on a connection taken from the pool and
\* inside a transaction scope opened on it; none is issued on a bare connection.
C26_MutationsInTransaction ==
    \A t \in Tasks : AtMutation(t) => (task[t].held >= 1 /\ task[t].inTx)

\* task t holds a connection and waits for the pool to hand it another
HoldsAndWaits(t) == task[t].pc = "acq2" /\ task[t].held >= 1

\* C27: no operation acquires a pooled connection while it holds one, so
\* there is no state in which every connection of the pool is held by an
\* operation that is waiting for another connection.
C27_NoHoldAndWait ==
    /\ \A t \in Tasks : ~HoldsAndWaits(t)
    /\ ~(poolOut = PoolSize /\ \A t \in Tasks : task[t].held >= 1 => HoldsAndWaits(t))

\* task t stands at pool.acquire()
AcquireWait(t) == task[t].pc \in {"acq", "l_acq", "acq2"}

\* C24: an acquisition that finds the pool saturated does not wait forever:
\* it gets a connection once one is released, or it fails (PoolExhausted)
\* when none is released in time.  Stated for the acquisitions made by a
\* caller that holds a connection, the ones nobody else's release is sure to end.
C24_AcquireNeverWaitsForever ==
    \A t \in Tasks :
        (AcquireWait(t) /\ poolOut = PoolSize /\ task[t].held = 1)
            ~> (~AcquireWait(t) \/ task[t].held # 1)

\* C28: of the calls Service.delete(id) that run concurrently on one row, only
\* the call whose own DELETE removed the row returns success; a call that ends
\* with the row gone by another call's doing fails with NotFound, never with
\* success or DatabaseError, whether it lost at the existence check or at the
\* DELETE (a failure of the store or a cancellation aside).
C28_ConcurrentDeleteOneWinner ==
    \A t \in Tasks :
        LET k == task[t]
        IN (Done(t) /\ k.op.name = "delete" /\ ~EnvFault(k.result)) =>
              /\ k.result.t = "val" =>
                    (k.result.v = BoolV(TRUE) /\ hist[t].changed /\ ~Present(k.op))
              /\ (~Present(k.op) /\ ~hist[t].changed) =>
                    (k.result.t = "exc" /\ k.result.e.kind = "NotFoundError")

\* a delete passed its existence check, lost the row to the other call, and
\* its own DELETE removed nothing
C28_Witness ==
    \E t \in Tasks :
        /\ Done(t) /\ task[t].op.name = "delete"
        /\ "DELETE" \in task[t].stmts
        /\ hist[t].interf
        /\ ~Present(task[t].op)
        /\ task[t].result.t = "exc"
        /\ task[t].result.e.kind = "NotFoundError"

\* the update methods that take a payload model
PayloadUpdates == {"update", "update_proveedor", "update_compra_proveedor"}

\* the columns a payload sets to null
NullFields(op) == {c \in DOMAIN op.data : op.data[c] = NULL}

\* C29: an update whose payload sets a field to null is not an empty update:
\* when it returns an entity it has issued its UPDATE, and the column holds
\* null in the store (unless another request changed the store meanwhile).
C29_ExplicitNullIsWritten ==
    \A t \in Tasks :
        LET k == task[t]
        IN (/\ Done(t) /\ k.op.name \in PayloadUpdates
            /\ k.result.t = "val"
            /\ NullFields(k.op) # {}) =>
              /\ "UPDATE" \in k.stmts
              /\ ~hist[t].interf =>
                    /\ Present(k.op)
                    /\ \A c \in NullFields(k.op) : store[k.op.tbl][k.op.id][c] = NULL

UpdateCalls == {"update", "repo_update"}

\* the cell of row id, column c of table tbl is the same before and after
SameCell(tbl, id, c) ==
    /\ id \in DOMAIN store'[tbl]
    /\ store'[tbl][id][c] = store[tbl][id][c]

\* C30: whatever an update(id, fieldMap) changes in the store is within the
\* row `id` of its table and the columns fieldMap names: every table keeps its
\* set of rows, and every other cell keeps its value.
C30_UpdateFrame ==
    [][(task["t1"].op.name \in UpdateCalls /\ store' # store) =>
          LET op == task["t1"].op
          IN \A tbl \in Tables :
                /\ DOMAIN store'[tbl] = DOMAIN store[tbl]
                /\ \A id \in DOMAIN store[tbl] : \A c \in Columns(tbl) :
                      (tbl # op.tbl \/ id # op.id \/ c \notin DOMAIN op.data) =>
                          SameCell(tbl, id, c)]_vars

\* an update has returned its entity and has changed the store, which holds
\* a second row in the table
C30_Witness ==
    LET k == task["t1"]
    IN /\ Done("t1") /\ k.op.name \in UpdateCalls
       /\ k.result.t = "val" /\ hist["t1"].changed
       /\ DOMAIN store[k.op.tbl] # {k.op.id}
       /\ DOMAIN k.op.data # Columns(k.op.tbl)
====
